---- MODULE Spec2Model ----
(***************************************************************************)
(* Model of twisted.python.logger._syslog: the SyslogObserver that turns a *)
(* log event into calls of syslog(priority | facility, text).              *)
(*                                                                         *)
(* Text is a sequence of one-character strings.  An event is a function    *)
(* from the keys it contains to their values.  The value returned by the   *)
(* injected formatEvent callable is an input of the call.                  *)
(***************************************************************************)
EXTENDS Integers, Sequences, FiniteSets, TLC

VARIABLES
    pc,            \* "new" before SyslogObserver.__init__, "ready" after it
    ctorArgs,      \* what the constructor was called with
    openlogCalls,  \* every call of openlog, in order
    selfSyslog,    \* the attribute self.syslog
    event,         \* the event of the current / last __call__
    formatted,     \* what self.formatEvent(event) returned for it
    text,          \* the local `text` when __call__ ended
    priority,      \* the local `priority` when __call__ ended
    facility,      \* the local `facility` when __call__ ended
    raised,        \* the exception that ended __call__, "none" if it returned
    calls,         \* the calls of self.syslog made by the last __call__
    emits,         \* number of __call__ invocations so far
    factoryArgs    \* what textSyslogObserver was called with, if it built the observer

vars == <<pc, ctorArgs, openlogCalls, selfSyslog, event, formatted, text,
          priority, facility, raised, calls, emits, factoryArgs>>

----
\* Bounds of the model

MaxLen == 4        \* longest text the formatter returns
MaxTb == 1         \* longest traceback text of a failure
MaxEmits == 2      \* number of __call__ invocations followed

----
\* Constants of Python's syslog module used by the source

LOG_ALERT == 1
LOG_ERR == 3
LOG_WARNING == 4
LOG_INFO == 6
LOG_DEBUG == 7
LOG_USER == 8

DEFAULT_OPTIONS == 0
DEFAULT_FACILITY == LOG_USER

NL == "\n"
TAB == "\t"
None == <<"None">>       \* the absent value; not a text
Unset == -1              \* a local that was never assigned

stdsyslog_syslog == "stdsyslog.syslog"
custom_syslog == "custom_syslog"

----
\* Values

Chars == {"a", NL}

RECURSIVE TextsOfLen(_)
TextsOfLen(n) ==
    IF n = 0 THEN {<<>>}
    ELSE {Append(t, c) : t \in TextsOfLen(n - 1), c \in Chars}

TextsUpTo(n) == UNION {TextsOfLen(k) : k \in 0..n}

\* what a formatEvent callable may return
Formatted == {None} \cup TextsUpTo(MaxLen)

\* what Failure.getTraceback() may return
Tracebacks == TextsUpTo(MaxTb)

\* a value found under syslogPriority / syslogFacility: the data model makes
\* it an integer; it comes as an int or as the decimal str of one
IntVal(n) == [kind |-> "int", n |-> n, s |-> <<>>]
StrVal(s) == [kind |-> "str", n |-> 0, s |-> s]

LogLevels == {"debug", "info", "warn", "error", "critical"}
LevelValues == LogLevels \cup {"bogus"}
PriorityValues == {IntVal(2), StrVal(<<"5">>)}
FacilityValues == {IntVal(9), StrVal(<<"1", "6">>)}

EmptyEvent == [k \in {} |-> 0]
Field(key, Vals) == {EmptyEvent} \cup {[k \in {key} |-> v] : v \in Vals}

Events ==
    {l @@ f @@ p @@ c :
        l \in Field("log_level", LevelValues),
        f \in Field("log_failure", Tracebacks),
        p \in Field("syslogPriority", PriorityValues),
        c \in Field("syslogFacility", FacilityValues)}

\* the smaller set of events followed over several calls
LifeEvents ==
    {l @@ f :
        l \in Field("log_level", {"error"}),
        f \in Field("log_failure", {<<"a">>})}
LifeFormatted == {None, <<"a">>, <<"a", NL, "a">>}

Prefixes == {"Twisted", "test_syslog"}
OptionValues == {DEFAULT_OPTIONS, 1}
FacilityArgs == {DEFAULT_FACILITY, 24}
SyslogFns == {stdsyslog_syslog, custom_syslog}
TimeFormats == {"%Y-%m-%dT%H:%M:%S%z", "%f"}

\* textSyslogObserver was not the caller
NoFactory == [used |-> FALSE, prefix |-> "", options |-> 0, facility |-> 0,
              timeFormat |-> ""]

----
\* Helpers of the Python runtime

RECURSIVE BitOr(_, _)
BitOr(a, b) ==
    IF a = 0 THEN b
    ELSE IF b = 0 THEN a
    ELSE (IF a % 2 = 1 \/ b % 2 = 1 THEN 1 ELSE 0) + 2 * BitOr(a \div 2, b \div 2)

Digits == [c \in {"0", "1", "2", "3", "4", "5", "6", "7", "8", "9"} |->
              CASE c = "0" -> 0 [] c = "1" -> 1 [] c = "2" -> 2 [] c = "3" -> 3
                [] c = "4" -> 4 [] c = "5" -> 5 [] c = "6" -> 6 [] c = "7" -> 7
                [] c = "8" -> 8 [] c = "9" -> 9]

RECURSIVE ParseDigits(_)
ParseDigits(s) ==
    IF s = <<>> THEN 0
    ELSE 10 * ParseDigits(SubSeq(s, 1, Len(s) - 1)) + Digits[s[Len(s)]]

\* int(v): the integer itself, the number a decimal string denotes, or ValueError
int(v) ==
    IF v.kind = "int" THEN [exc |-> "none", val |-> v.n]
    ELSE IF v.s # <<>> /\ \A i \in 1..Len(v.s) : v.s[i] \in DOMAIN Digits
         THEN [exc |-> "none", val |-> ParseDigits(v.s)]
         ELSE [exc |-> "ValueError", val |-> Unset]

\* u"\n".join((a, b))
JoinNoNewline(a, b) == a \o b
Join(a, b) == a \o <<NL>> \o b

\* text.split('\n')
RECURSIVE split(_)
split(t) ==
    IF \A i \in 1..Len(t) : t[i] # NL THEN <<t>>
    ELSE LET i == CHOOSE j \in 1..Len(t) :
                      t[j] = NL /\ \A k \in 1..(j - 1) : t[k] # NL
         IN <<SubSeq(t, 1, i - 1)>> \o split(SubSeq(t, i + 1, Len(t)))


\* while lines[-1:] == ['']: lines.pop()
RECURSIVE dropTrailingEmpty(_)
dropTrailingEmpty(lines) ==
    IF lines # <<>> /\ lines[Len(lines)] = <<>>
    THEN dropTrailingEmpty(SubSeq(lines, 1, Len(lines) - 1))
    ELSE lines

----
\* SyslogObserver.__call__, statement by statement

toSyslogLevelMapping ==
    [l \in LogLevels |->
        CASE l = "debug" -> LOG_DEBUG
          [] l = "info" -> LOG_INFO
          [] l = "warn" -> LOG_WARNING
          [] l = "error" -> LOG_ERR
          [] l = "critical" -> LOG_ALERT]

\* text = self.formatEvent(event); if text is None: text = u""
formattedText(f) == IF f = None THEN <<>> ELSE f

\* try: priority = toSyslogLevelMapping[event['log_level']]
\* except KeyError: priority = LOG_INFO
levelPriorityUncaught(e) ==
    IF "log_level" \in DOMAIN e /\ e["log_level"] \in DOMAIN toSyslogLevelMapping
    THEN [exc |-> "none", val |-> toSyslogLevelMapping[e["log_level"]]]
    ELSE [exc |-> "KeyError", val |-> Unset]
levelPriority(e) ==
    IF "log_level" \in DOMAIN e /\ e["log_level"] \in DOMAIN toSyslogLevelMapping
    THEN [exc |-> "none", val |-> toSyslogLevelMapping[e["log_level"]]]
    ELSE [exc |-> "none", val |-> LOG_INFO]

\* if "log_failure" in event: ... priority = LOG_ALERT
\* elif 'syslogPriority' in event: priority = int(event['syslogPriority'])
overridePriorityFirst(e, p) ==
    IF "syslogPriority" \in DOMAIN e THEN int(e["syslogPriority"])
    ELSE IF "log_failure" \in DOMAIN e THEN [exc |-> "none", val |-> LOG_ALERT]
    ELSE [exc |-> "none", val |-> p]
overridePriorityIgnored(e, p) ==
    IF "log_failure" \in DOMAIN e THEN [exc |-> "none", val |-> LOG_ALERT]
    ELSE [exc |-> "none", val |-> p]
overridePriority(e, p) ==
    IF "log_failure" \in DOMAIN e THEN [exc |-> "none", val |-> LOG_ALERT]
    ELSE IF "syslogPriority" \in DOMAIN e THEN
        LET i == int(e["syslogPriority"])
        IN IF i.exc = "none" THEN i ELSE [exc |-> i.exc, val |-> p]
    ELSE [exc |-> "none", val |-> p]

\* if "log_failure" in event:
\*     text = u"\n".join((text, event["log_failure"].getTraceback()))
finalTextNoNewline(e, t) ==
    IF "log_failure" \in DOMAIN e THEN JoinNoNewline(t, e["log_failure"]) ELSE t
finalText(e, t) ==
    IF "log_failure" \in DOMAIN e THEN Join(t, e["log_failure"]) ELSE t

\* facility = 0; if 'syslogFacility' in event: facility = int(...)
eventFacilityDefault(e, dflt) ==
    IF "syslogFacility" \in DOMAIN e THEN
        LET i == int(e["syslogFacility"])
        IN IF i.exc = "none" THEN i ELSE [exc |-> i.exc, val |-> dflt]
    ELSE [exc |-> "none", val |-> dflt]
eventFacility(e, dflt) ==
    IF "syslogFacility" \in DOMAIN e THEN
        LET i == int(e["syslogFacility"])
        IN IF i.exc = "none" THEN i ELSE [exc |-> i.exc, val |-> 0]
    ELSE [exc |-> "none", val |-> 0]

\* lines = text.split('\n'); while lines[-1:] == ['']: lines.pop()
retainedLinesKeepTrailing(t) == split(t)
retainedLines(t) == dropTrailingEmpty(split(t))

\* the value of `line` in each iteration: later lines get a leading tab
indented(lines) ==
    [i \in 1..Len(lines) |-> IF i = 1 THEN lines[i] ELSE <<TAB>> \o lines[i]]

\* the second argument of self.syslog(priority | facility, text)
payloadLine(t, line) == line
payload(t, line) == t

\* the first argument of self.syslog(priority | facility, text)
bits(p, f) == BitOr(p, f)

\* if text: ... for line in lines: self.syslog(priority | facility, text)
submissionsAlways(fn, p, f, t) ==
    LET lines == indented(retainedLines(t))
        n == IF Len(lines) = 0 THEN 1 ELSE Len(lines)
    IN [i \in 1..n |-> [fn |-> fn, bits |-> bits(p, f), text |-> t]]
submissions(fn, p, f, t) ==
    IF t = <<>> THEN <<>>
    ELSE LET lines == indented(retainedLines(t))
         IN [i \in 1..Len(lines) |->
                [fn |-> fn, bits |-> bits(p, f), text |-> payload(t, lines[i])]]

----
\* SyslogObserver.__init__

\* self.openlog(prefix, options, facility)
openlogArgsDefaults(prefix, options, fac) == <<prefix, DEFAULT_OPTIONS, DEFAULT_FACILITY>>
openlogArgs(prefix, options, fac) == <<prefix, options, fac>>

\* self.syslog = stdsyslog.syslog
boundSyslog(syslogArg) == stdsyslog_syslog

init(prefix, options, fac, syslogArg) ==
    /\ pc = "new"
    /\ pc' = "ready"
    /\ ctorArgs' = [prefix |-> prefix, options |-> options, facility |-> fac,
                    syslog |-> syslogArg]
    /\ openlogCalls' = Append(openlogCalls, openlogArgs(prefix, options, fac))
    /\ selfSyslog' = boundSyslog(syslogArg)
    /\ UNCHANGED <<event, formatted, text, priority, facility, raised, calls, emits>>

\* SyslogObserver(formatEvent, prefix, options, facility, syslog) called directly
Construct(prefix, options, fac, syslogArg) ==
    /\ init(prefix, options, fac, syslogArg)
    /\ UNCHANGED factoryArgs

\* return SyslogObserver(formatEvent, prefix, options=DEFAULT_OPTIONS,
\*                       facility=DEFAULT_FACILITY)
passedOptions(options) == DEFAULT_OPTIONS
passedFacility(fac) == DEFAULT_FACILITY

\* textSyslogObserver(prefix, options, facility, timeFormat); timeFormat only
\* reaches the formatEvent closure, the syslog parameter takes its default
textSyslogObserver(prefix, options, fac, timeFormat) ==
    /\ init(prefix, passedOptions(options), passedFacility(fac), stdsyslog_syslog)
    /\ factoryArgs' = [used |-> TRUE, prefix |-> prefix, options |-> options,
                       facility |-> fac, timeFormat |-> timeFormat]

Call(e, f) ==
    /\ pc = "ready"
    /\ emits < MaxEmits
    /\ LET t0 == formattedText(f)
           lp == levelPriority(e)
           t1 == IF lp.exc = "none" THEN finalText(e, t0) ELSE t0
           op == IF lp.exc = "none" THEN overridePriority(e, lp.val) ELSE lp
           fc == IF op.exc = "none" /\ t1 # <<>>
                 THEN eventFacility(e, ctorArgs.facility)
                 ELSE [exc |-> op.exc, val |-> Unset]
       IN /\ text' = t1
          /\ priority' = op.val
          /\ facility' = fc.val
          /\ raised' = fc.exc
          /\ calls' = IF fc.exc = "none"
                      THEN submissions(selfSyslog, op.val, fc.val, t1)
                      ELSE <<>>
    /\ event' = e
    /\ formatted' = f
    /\ emits' = emits + 1
    /\ UNCHANGED <<pc, ctorArgs, openlogCalls, selfSyslog, factoryArgs>>

----
\* Specifications

\* One observer, one event: the event and the formatter's answer are drawn
\* at the start, the observer is built and then called with them.
Init ==
    /\ pc = "new"
    /\ ctorArgs = [prefix |-> "", options |-> 0, facility |-> 0, syslog |-> ""]
    /\ openlogCalls = <<>>
    /\ selfSyslog = ""
    /\ event \in Events
    /\ formatted \in Formatted
    /\ text = <<>>
    /\ priority = Unset
    /\ facility = Unset
    /\ raised = "none"
    /\ calls = <<>>
    /\ emits = 0
    /\ factoryArgs = NoFactory

Next ==
    \/ \E fac \in FacilityArgs : Construct("Twisted", DEFAULT_OPTIONS, fac, stdsyslog_syslog)
    \/ Call(event, formatted)

Spec == Init /\ [][Next]_vars

\* One observer over its life: built directly or by textSyslogObserver with
\* any arguments, then several events in a row.
InitLife ==
    /\ pc = "new"
    /\ ctorArgs = [prefix |-> "", options |-> 0, facility |-> 0, syslog |-> ""]
    /\ openlogCalls = <<>>
    /\ selfSyslog = ""
    /\ event = EmptyEvent
    /\ formatted = None
    /\ text = <<>>
    /\ priority = Unset
    /\ facility = Unset
    /\ raised = "none"
    /\ calls = <<>>
    /\ emits = 0
    /\ factoryArgs = NoFactory

NextLife ==
    \/ \E prefix \in Prefixes, options \in OptionValues, fac \in FacilityArgs,
          syslogArg \in SyslogFns : Construct(prefix, options, fac, syslogArg)
    \/ \E prefix \in Prefixes, options \in OptionValues, fac \in FacilityArgs,
          timeFormat \in TimeFormats : textSyslogObserver(prefix, options, fac, timeFormat)
    \/ \E e \in LifeEvents, f \in LifeFormatted : Call(e, f)

SpecLife == InitLife /\ [][NextLife]_vars

called == emits > 0

----
\* Properties

has(key) == key \in DOMAIN event

\* the facility the event asks for: 0 unless it carries syslogFacility
askedFacility == IF has("syslogFacility") THEN int(event["syslogFacility"]).val ELSE 0

C2_PriorityOverride ==
    (called /\ has("syslogPriority") /\ ~has("log_failure")) =>
        LET given == event["syslogPriority"]
            asked == IF given.kind = "int" THEN given.n ELSE ParseDigits(given.s)
        IN /\ priority = asked
           /\ \A i \in 1..Len(calls) : calls[i].bits = BitOr(asked, askedFacility)

C2_Witness ==
    /\ called /\ has("syslogPriority") /\ ~has("log_failure")
    /\ event["syslogPriority"] = StrVal(<<"5">>)
    /\ has("log_level") /\ event["log_level"] = "error"
    /\ Len(calls) > 0 /\ calls[1].bits = 5

\* C3: an event with neither a failure nor syslogPriority is submitted at the
\* table entry of its level, at INFO when the level is missing or unknown,
\* and the lookup never makes the call raise.
C3_LevelTable ==
    (called /\ ~has("log_failure") /\ ~has("syslogPriority")) =>
        /\ raised = "none"
        /\ priority =
              IF ~has("log_level") THEN LOG_INFO
              ELSE CASE event["log_level"] = "debug" -> LOG_DEBUG
                     [] event["log_level"] = "info" -> LOG_INFO
                     [] event["log_level"] = "warn" -> LOG_WARNING
                     [] event["log_level"] = "error" -> LOG_ERR
                     [] event["log_level"] = "critical" -> LOG_ALERT
                     [] OTHER -> LOG_INFO
        /\ \A i \in 1..Len(calls) : calls[i].bits = BitOr(priority, askedFacility)

C3_Witness ==
    /\ called /\ ~has("log_failure") /\ ~has("syslogPriority")
    /\ has("log_level") /\ event["log_level"] = "bogus"
    /\ raised = "none" /\ Len(calls) > 0 /\ calls[1].bits = LOG_INFO

\* C4 as stated: whenever the formatter returns "" or None, no submission
\* is made and the call returns.
C4_EmptyFormattedNoSubmission ==
    (called /\ formatted \in {None, <<>>}) => (calls = <<>> /\ raised = "none")

\* C4: for an event without a failure, when the formatter returns "" or
\* None, no submission is made and the call returns.
C4_EmptyFormattedNoFailure ==
    (called /\ formatted \in {None, <<>>} /\ ~has("log_failure")) =>
        (calls = <<>> /\ raised = "none")

C4_Witness ==
    /\ called /\ formatted = None /\ ~has("log_failure")
    /\ has("syslogFacility") /\ calls = <<>> /\ raised = "none"

\* the number of lines of t once the trailing empty ones are dropped: none
\* when t has only newlines, else one more than the newlines before the
\* last character that is not a newline
lineCount(t) ==
    LET solid == {i \in 1..Len(t) : t[i] # NL}
    IN IF solid = {} THEN 0
       ELSE LET last == CHOOSE i \in solid : \A j \in solid : j <= i
            IN 1 + Cardinality({i \in 1..last : t[i] = NL})

\* C5: when the final text is not empty, one call makes as many submissions
\* as the text has lines after its trailing empty lines are dropped; empty
\* lines in the middle count.
C5_OneSubmissionPerLine ==
    (called /\ text # <<>>) => Len(calls) = lineCount(text)

C5_Witness ==
    /\ called /\ text = <<"a", NL, NL, "a", NL>> /\ Len(calls) = 3

\* C6: the first argument of every submission is priority | facility, with
\* facility 0 or int(event["syslogFacility"]); the constructor's facility
\* plays no part and all submissions of a call agree.
C6_PriorityOrFacility ==
    called =>
        /\ \A i \in 1..Len(calls) : calls[i].bits = BitOr(priority, askedFacility)
        /\ \A i, j \in 1..Len(calls) : calls[i].bits = calls[j].bits
        /\ calls # <<>> => facility = askedFacility

C6_Witness ==
    /\ called /\ ctorArgs.facility = 24 /\ has("syslogFacility")
    /\ event["syslogFacility"] = IntVal(9) /\ priority = LOG_INFO
    /\ Len(calls) = 2 /\ calls[2].bits = 15

\* C7: for an event with a failure the text of the emission is the formatted
\* text ("" for None), a newline, and the traceback.
C7_FailureAppendsTraceback ==
    (called /\ has("log_failure")) =>
        LET body == IF formatted = None THEN <<>> ELSE formatted
            whole == body \o <<NL>> \o event["log_failure"]
        IN /\ text = whole
           /\ \A i \in 1..Len(calls) : calls[i].text = whole

C7_Witness ==
    /\ called /\ has("log_failure") /\ formatted = <<"a">>
    /\ event["log_failure"] = <<"a">>
    /\ Len(calls) = 2 /\ calls[1].text = <<"a", NL, "a">>

\* C8: every submission goes to the syslog function given to the constructor.
C8_SubmitsToGivenSyslog ==
    called => \A i \in 1..Len(calls) : calls[i].fn = ctorArgs.syslog

\* C9: openlog is called once, by the constructor and with its prefix,
\* options and facility, before any submission; calls of the observer never
\* open the session again.
C9_OpenedOnceAtConstruction ==
    /\ pc = "new" => (openlogCalls = <<>> /\ calls = <<>> /\ emits = 0)
    /\ pc = "ready" =>
          openlogCalls = << <<ctorArgs.prefix, ctorArgs.options, ctorArgs.facility>> >>

C9_Witness ==
    /\ pc = "ready" /\ emits = MaxEmits /\ Len(calls) > 0
    /\ ctorArgs.options = 1 /\ ctorArgs.facility = 24
    /\ openlogCalls = << <<"test_syslog", 1, 24>> >>

C11_FactoryOpensWithCallerArgs ==
    (pc = "ready" /\ factoryArgs.used) =>
        openlogCalls =
            << <<factoryArgs.prefix, factoryArgs.options, factoryArgs.facility>> >>

====
